---------------------------- MODULE Spec2Model ----------------------------
(***************************************************************************)
(* A model of sst::basic_blocks::params::ParamMetaData                      *)
(* (include/sst/basic-blocks/params/ParamMetadata.h): the descriptor, its   *)
(* builder calls, the natural <-> normalized mapping, the value <-> string  *)
(* conversions and the modulation display.                                  *)
(*                                                                         *)
(* Numbers.  A C++ float is modelled as an exact extended rational <<n,d>>: *)
(* d > 0 and gcd(n,d) = 1 for a finite value, <<1,0>> and <<-1,0>> for the  *)
(* two infinities and <<0,0>> for NaN.  Arithmetic and comparisons follow   *)
(* IEEE 754 on these (a comparison with NaN is false, x/0 is an infinity,   *)
(* 0/0 is NaN); rounding to 24 bits is not modelled.                        *)
(*                                                                         *)
(* Strings.  A std::string is a record: a literal text (k = "lit"), a       *)
(* number printed by fmt with a fixed count of decimals (k = "num": prefix  *)
(* s, the digits m = value * 10^dp, the unit u), or a note duration printed *)
(* by temposyncNotation (k = "tempo").                                      *)
(***************************************************************************)
EXTENDS Integers, Sequences, FiniteSets, TLC

(***************************************************************************)
(* Extended rationals                                                       *)
(***************************************************************************)
Abs(i) == IF i < 0 THEN -i ELSE i

Sgn(i) == IF i < 0 THEN -1 ELSE IF i > 0 THEN 1 ELSE 0

RECURSIVE GCD(_, _)
GCD(a, b) == IF b = 0 THEN a ELSE GCD(b, a % b)

\* The canonical pair for n/d (d of either sign, 0 for an infinity or NaN).
Mk(n, d) ==
  IF d = 0 THEN <<Sgn(n), 0>>
  ELSE LET g == GCD(Abs(n), Abs(d))
           s == Sgn(d)
       IN  <<(s * n) \div g, (s * d) \div g>>

FInt(i) == <<i, 1>>

NaN == <<0, 0>>

PosInf == <<1, 0>>

NegInf == <<-1, 0>>

IsNaN(x) == x = NaN

IsFinite(x) == x[2] # 0

IsInf(x) == x[2] = 0 /\ x[1] # 0

FNeg(x) == <<-x[1], x[2]>>

FAdd(x, y) ==
  IF IsNaN(x) \/ IsNaN(y) THEN NaN
  ELSE IF IsInf(x) /\ IsInf(y) THEN (IF x = y THEN x ELSE NaN)
  ELSE IF IsInf(x) THEN x
  ELSE IF IsInf(y) THEN y
  ELSE Mk(x[1] * y[2] + y[1] * x[2], x[2] * y[2])

FSub(x, y) == FAdd(x, FNeg(y))

FMul(x, y) == Mk(x[1] * y[1], x[2] * y[2])

FDiv(x, y) == FMul(x, Mk(y[2] * (IF y[1] < 0 THEN -1 ELSE 1), Abs(y[1])))

\* x < y; false when either is NaN.
FLt(x, y) ==
  IF IsNaN(x) \/ IsNaN(y) THEN FALSE
  ELSE IF IsInf(x) /\ IsInf(y) THEN x[1] < y[1]
  ELSE x[1] * y[2] < y[1] * x[2]

FGt(x, y) == FLt(y, x)

\* x == y; false when either is NaN.
FEq(x, y) == ~IsNaN(x) /\ ~IsNaN(y) /\ x = y

FLe(x, y) == FLt(x, y) \/ FEq(x, y)

FGe(x, y) == FLe(y, x)

\* std::fabs
FAbs(x) == <<Abs(x[1]), x[2]>>

\* std::clamp(v, lo, hi): (v < lo) ? lo : (hi < v) ? hi : v
FClamp(v, lo, hi) == IF FLt(v, lo) THEN lo ELSE IF FLt(hi, v) THEN hi ELSE v

\* (int)x of a finite x: truncation toward zero.
Trunc(x) == Sgn(x[1]) * (Abs(x[1]) \div x[2])

\* floor of a finite x
Floor(x) == x[1] \div x[2]

IsInteger(x) == x[2] = 1

\* std::round of a finite x: to the nearest integer, halves away from zero.
Round(x) == Sgn(x[1]) * ((2 * Abs(x[1]) + x[2]) \div (2 * x[2]))

RECURSIVE Pow10(_)
Pow10(k) == IF k = 0 THEN 1 ELSE 10 * Pow10(k - 1)

RECURSIVE IPow(_, _)
IPow(b, k) == IF k = 0 THEN 1 ELSE b * IPow(b, k - 1)

\* pow(2, e) for an integer exponent e.
Pow2(e) == IF e >= 0 THEN <<IPow(2, e), 1>> ELSE <<1, IPow(2, -e)>>


(***************************************************************************)
(* Strings                                                                  *)
(***************************************************************************)
\* A literal std::string.
Lit(s) == [k |-> "lit", s |-> s, m |-> 0, dp |-> 0, u |-> ""]

EmptyString == Lit("")

IsEmpty(t) == t = EmptyString

\* std::optional<T>: a value, or std::nullopt (of strings, of floats).
Some(v) == [has |-> TRUE, val |-> v]

NullOptString == [has |-> FALSE, val |-> EmptyString]

NullOptFloat == [has |-> FALSE, val |-> FInt(0)]

\* The integer nearest to n/d for n >= 0 and d > 0, a half going to the even one
\* (what fmt's fixed precision does with an exactly representable tie).
HalfEven(n, d) ==
  LET q == n \div d
      r == n % d
  IN  IF 2 * r > d \/ (2 * r = d /\ q % 2 = 1) THEN q + 1 ELSE q

\* fmt::format("<prefix>{:.{}f}<suffix>", x, dp): the digits of x at dp decimals;
\* a non-finite x prints as nan, inf or -inf.
FormatFixed(prefix, x, dp, suffix) ==
  IF IsFinite(x)
  THEN [k |-> "num", s |-> prefix,
        m |-> Sgn(x[1]) * HalfEven(Abs(x[1]) * Pow10(dp), x[2]),
        dp |-> dp, u |-> suffix]
  ELSE [k |-> "nonfinite", s |-> prefix, m |-> x[1], dp |-> dp, u |-> suffix]

\* A number as a user types it: m / 10^dp, no unit.
Typed(m, dp) == [k |-> "num", s |-> "", m |-> m, dp |-> dp, u |-> ""]

\* The text temposyncNotation builds: nn is "whole", "double whole", "1/" (followed
\* by n) or "count" (n followed by the plural t); t is the modifier.
TempoText(nn, n, t) == [k |-> "tempo", s |-> nn, m |-> n, dp |-> 0, u |-> t]

\* Literal texts std::stof reads as a number although they hold no digits.
StofNaNTexts == {"nan", "NaN"}

StofInfTexts == {"inf", "infinity"}

\* std::stof(text): the number the text starts with (what follows it is ignored);
\* ok is false where std::stof throws std::invalid_argument.
Stof(t) ==
  CASE t.k = "num" /\ t.s = "" -> [ok |-> TRUE, val |-> Mk(t.m, Pow10(t.dp))]
    [] t.k = "nonfinite" /\ t.s = "" -> [ok |-> TRUE, val |-> <<t.m, 0>>]
    [] t.k = "tempo" /\ t.s = "1/" -> [ok |-> TRUE, val |-> FInt(1)]
    [] t.k = "tempo" /\ t.s = "count" -> [ok |-> TRUE, val |-> FInt(t.m)]
    [] t.k = "lit" /\ t.s \in StofNaNTexts -> [ok |-> TRUE, val |-> NaN]
    [] t.k = "lit" /\ t.s \in StofInfTexts -> [ok |-> TRUE, val |-> PosInf]
    [] OTHER -> [ok |-> FALSE, val |-> NaN]

\* Whether x is 2^e for an integer e.
RECURSIVE IsPow2Int(_)
IsPow2Int(i) == i = 1 \/ (i > 1 /\ i % 2 = 0 /\ IsPow2Int(i \div 2))

IsPow2(x) == IsFinite(x) /\ ((x[1] = 1 /\ IsPow2Int(x[2])) \/ (x[2] = 1 /\ IsPow2Int(x[1])))

RECURSIVE ILog2(_)
ILog2(i) == IF i <= 1 THEN 0 ELSE 1 + ILog2(i \div 2)

\* The arguments on which the model evaluates log2: the powers of two, and those
\* with a non-finite result.
Log2Modelled(x) == ~IsFinite(x) \/ x[1] <= 0 \/ IsPow2(x)

\* log2(x): NaN for a negative x, -inf for 0, exact on a power of two.
Log2(x) ==
  IF IsNaN(x) \/ x[1] < 0 THEN NaN
  ELSE IF x[1] = 0 THEN NegInf
  ELSE IF IsInf(x) THEN PosInf
  ELSE IF x[2] = 1 THEN FInt(ILog2(x[1])) ELSE FInt(-ILog2(x[2]))

\* The arguments on which the model evaluates pow(2, x): the integers.
PowModelled(x) == IsFinite(x) /\ IsInteger(x)

\* pow(2.0, x) for an integer x.
PowTwo(x) == Pow2(x[1])

(***************************************************************************)
(* The descriptor                                                           *)
(***************************************************************************)
Types == {"FLOAT", "INT", "BOOL", "NONE"}

DisplayScales == {"LINEAR", "A_TWO_TO_THE_B", "DECIBEL", "UNORDERED_MAP", "USER_PROVIDED"}

\* FeatureState(): the four flags, all false.
DefaultFeatureState ==
  [isHighPrecision |-> FALSE, isExtended |-> FALSE, isAbsolute |-> FALSE,
   isTemposynced |-> FALSE]

FeatureStates ==
  [isHighPrecision : BOOLEAN, isExtended : BOOLEAN, isAbsolute : BOOLEAN,
   isTemposynced : BOOLEAN]

\* ParamMetaData() = default: every member at its initializer.
DefaultParamMetaData ==
  [type |-> "FLOAT", name |-> "",
   minVal |-> FInt(0), maxVal |-> FInt(1), defaultVal |-> FInt(0),
   canExtend |-> FALSE, canDeform |-> FALSE, canAbsolute |-> FALSE,
   canTemposync |-> FALSE, canDeactivate |-> FALSE,
   deformationCount |-> 0, supportsStringConversion |-> FALSE,
   displayScale |-> "LINEAR", unit |-> "",
   customMinDisplay |-> EmptyString, customMaxDisplay |-> EmptyString,
   customDefaultDisplay |-> EmptyString,
   discreteValues |-> <<>>, decimalPlaces |-> 2,
   svA |-> FInt(0), svB |-> FInt(0), svC |-> FInt(0), svD |-> FInt(0),
   exA |-> FInt(1), exB |-> FInt(0)]

\* v is in [minVal, maxVal].
InRange(p, v) == FLe(p.minVal, v) /\ FLe(v, p.maxVal)

(***************************************************************************)
(* Natural <-> normalized                                                   *)
(***************************************************************************)
\* The assertions of naturalToNormalized01 for descriptor p.
NaturalToNormalized01Asserts(p) ==
  CASE p.type \in {"FLOAT", "INT"} -> p.maxVal # p.minVal
    [] p.type = "BOOL" -> p.maxVal = FInt(1) /\ p.minVal = FInt(0)
    [] OTHER -> FALSE

naturalToNormalized01(p, naturalValue) ==
  LET v == CASE p.type = "FLOAT" ->
                  FDiv(FSub(naturalValue, p.minVal), FSub(p.maxVal, p.minVal))
             [] p.type = "INT" ->
                  FAdd(Mk(5, 1000),
                       FDiv(FMul(Mk(99, 100), FSub(naturalValue, p.minVal)),
                            FSub(p.maxVal, p.minVal)))
             [] p.type = "BOOL" ->
                  IF FGt(naturalValue, Mk(1, 2)) THEN FInt(1) ELSE FInt(0)
             [] OTHER -> FInt(0)
  IN  FClamp(v, FInt(0), FInt(1))

\* The assertions of normalized01ToNatural for descriptor p and input n.
Normalized01ToNaturalAsserts(p, n) ==
  /\ FGe(n, FInt(0)) /\ FLe(n, FInt(1))
  /\ p.maxVal # p.minVal
  /\ p.type = "BOOL" => (p.maxVal = FInt(1) /\ p.minVal = FInt(0))
  /\ p.type # "NONE"

\* (int)((1 / 0.99) * (normalizedValue - 0.005) * (maxVal - minVal) + 0.5) + minVal
IntFromNormalized(p, n) ==
  FAdd(FInt(Trunc(FAdd(FMul(FMul(FDiv(FInt(1), Mk(99, 100)), FSub(n, Mk(5, 1000))),
                            FSub(p.maxVal, p.minVal)),
                       Mk(1, 2)))),
       p.minVal)

normalized01ToNatural(p, normalizedValue) ==
  LET n == FClamp(normalizedValue, FInt(0), FInt(1))
  IN  CASE p.type = "FLOAT" -> FAdd(FMul(n, FSub(p.maxVal, p.minVal)), p.minVal)
        [] p.type = "INT" -> IntFromNormalized(p, n)
        [] p.type = "BOOL" -> IF FGt(n, Mk(1, 2)) THEN p.maxVal ELSE p.minVal
        [] OTHER -> FInt(0)

(***************************************************************************)
(* temposyncNotation                                                        *)
(***************************************************************************)
\* The inputs on which the model evaluates temposyncNotation: below 1 any finite
\* value, from 1 on the integers (pow(2, f - 1) is then exact).
TemposyncModelled(f) == IsFinite(f) /\ (FGe(f, FInt(1)) => IsInteger(f))

\* pow(2.0, e) < c for a finite e >= 0 and c > 0, decided exactly:
\* 2^(n/d) < cn/cd  iff  2^n * cd^d < cn^d.
PowTwoBelow(e, c) == IPow(2, e[1]) * IPow(c[2], e[2]) < IPow(c[1], e[2])

\* The branch for f >= 1 (f an integer): whole notes and their multiples.
TemposyncWhole(f) ==
  LET q0 == PowTwo(FSub(f, FInt(1)))
      triplets(q) ==
        TempoText("count", Floor(FAdd(FMul(q, Mk(3, 2)), Mk(2, 100))), "whole triplets")
  IN  IF FGe(q0, FInt(3))
      THEN IF FLt(FAbs(FSub(q0, FInt(Floor(FAdd(q0, Mk(1, 100)))))), Mk(1, 100))
           THEN TempoText("count", Floor(FAdd(q0, Mk(1, 100))), "whole notes")
           ELSE triplets(q0)
      ELSE LET dbl == FGe(q0, FInt(2))
               nn == IF dbl THEN "double whole" ELSE "whole"
               q == IF dbl THEN FDiv(q0, FInt(2)) ELSE q0
           IN  IF FLt(q, Mk(13, 10)) THEN TempoText(nn, 0, "note")
               ELSE IF FLt(q, Mk(14, 10))
               THEN IF nn = "whole" THEN TempoText("double whole", 0, "triplet")
                    ELSE triplets(PowTwo(FSub(f, FInt(1))))
               ELSE TempoText(nn, 0, "dotted")

\* The branch for f < 1: a fraction 1/d of a whole note.  a and b are modff's
\* integral and fractional parts after the adjustment for b >= 0.
TemposyncFraction(a, b) ==
  LET d0 == IPow(2, -(a - 2))
      e == FAdd(b, FInt(1))
      t == IF PowTwoBelow(e, Mk(13, 10)) THEN "note"
           ELSE IF PowTwoBelow(e, Mk(14, 10)) THEN "triplet"
           ELSE "dotted"
      d == IF t = "triplet" THEN d0 \div 2 ELSE d0
  IN  IF d = 1 THEN TempoText("whole", 0, t) ELSE TempoText("1/", d, t)

temposyncNotation(f) ==
  LET a0 == Trunc(f)
      b0 == FSub(f, FInt(a0))
      adj == FGe(b0, FInt(0))
      b == IF adj THEN FSub(b0, FInt(1)) ELSE b0
      a == IF adj THEN a0 + 1 ELSE a0
  IN  IF FGe(f, FInt(1)) THEN TemposyncWhole(f) ELSE TemposyncFraction(a, b)

(***************************************************************************)
(* valueToString                                                            *)
(***************************************************************************)
\* fs.isHighPrecision ? (decimalPlaces + 4) : decimalPlaces
Precision(p, fs) == IF fs.isHighPrecision THEN p.decimalPlaces + 4 ELSE p.decimalPlaces

\* fmt::format("{:.{}f} {:s}", x, dp, unit)
FormatWithUnit(prefix, x, dp, unit) == FormatFixed(prefix, x, dp, " " \o unit)

\* val as the display transforms see it: extended when fs.isExtended.
Extended(p, val, fs) == IF fs.isExtended THEN FAdd(FMul(p.exA, val), p.exB) ELSE val

\* The custom strings tried in the order default, max, min: not what the code
\* does, kept to tell the orders apart.
CustomDisplayDefaultFirst(p, val) ==
  IF ~IsEmpty(p.customDefaultDisplay) /\ FEq(val, p.defaultVal)
  THEN Some(p.customDefaultDisplay)
  ELSE IF ~IsEmpty(p.customMaxDisplay) /\ FEq(val, p.maxVal) THEN Some(p.customMaxDisplay)
  ELSE IF ~IsEmpty(p.customMinDisplay) /\ FEq(val, p.minVal) THEN Some(p.customMinDisplay)
  ELSE NullOptString

\* The exact-match custom strings, tried before any transform: min, max, default.
CustomDisplay(p, val) ==
  IF ~IsEmpty(p.customMinDisplay) /\ FEq(val, p.minVal) THEN Some(p.customMinDisplay)
  ELSE IF ~IsEmpty(p.customMaxDisplay) /\ FEq(val, p.maxVal) THEN Some(p.customMaxDisplay)
  ELSE IF ~IsEmpty(p.customDefaultDisplay) /\ FEq(val, p.defaultVal)
  THEN Some(p.customDefaultDisplay)
  ELSE NullOptString

\* The checks the LINEAR and A_TWO_TO_THE_B cases repeat on the transformed val:
\* at maxVal with a custom max string they return customMinDisplay.
CustomInSwitch(p, val) ==
  IF FEq(val, p.minVal) /\ ~IsEmpty(p.customMinDisplay) THEN Some(p.customMinDisplay)
  ELSE IF FEq(val, p.maxVal) /\ ~IsEmpty(p.customMaxDisplay) THEN Some(p.customMinDisplay)
  ELSE NullOptString

\* The display value of val: svA * val, or svA * pow(2.0, svB * val + svC).
DisplayValue(p, val) ==
  IF p.displayScale = "LINEAR" THEN FMul(p.svA, val)
  ELSE FMul(p.svA, PowTwo(FAdd(FMul(p.svB, val), p.svC)))

\* The float cases with every other scale falling into the LINEAR format: not
\* what the code does, kept to tell a scale without a transform apart.
FloatToStringAnyScale(p, val, fs) ==
  IF fs.isTemposynced THEN Some(temposyncNotation(val))
  ELSE IF CustomInSwitch(p, val).has THEN CustomInSwitch(p, val)
  ELSE Some(FormatWithUnit("", IF p.displayScale = "A_TWO_TO_THE_B"
                               THEN DisplayValue(p, val) ELSE FMul(p.svA, val),
                           Precision(p, fs), p.unit))

\* The float cases of valueToString, after the custom strings of the raw value.
FloatToString(p, val, fs) ==
  IF fs.isTemposynced THEN Some(temposyncNotation(val))
  ELSE IF p.displayScale \in {"LINEAR", "A_TWO_TO_THE_B"}
  THEN IF CustomInSwitch(p, val).has THEN CustomInSwitch(p, val)
       ELSE Some(FormatWithUnit("", DisplayValue(p, val), Precision(p, fs), p.unit))
  ELSE NullOptString

valueToString(p, val, fs) ==
  IF p.type = "BOOL"
  THEN IF FLt(val, FInt(0))
       THEN Some(IF IsEmpty(p.customMinDisplay) THEN Lit("Off") ELSE p.customMinDisplay)
       ELSE Some(IF IsEmpty(p.customMaxDisplay) THEN Lit("On") ELSE p.customMaxDisplay)
  ELSE IF p.type = "INT"
  THEN IF p.displayScale = "UNORDERED_MAP" /\ Round(val) \in DOMAIN p.discreteValues
       THEN Some(p.discreteValues[Round(val)])
       ELSE NullOptString
  ELSE IF CustomDisplay(p, val).has THEN CustomDisplay(p, val)
  ELSE FloatToString(p, Extended(p, val, fs), fs)

\* Whether the model evaluates valueToString(val, fs) on p: the input is finite,
\* temposyncNotation and pow get arguments the model covers.
ValueToStringModelled(p, val, fs) ==
  /\ IsFinite(val)
  /\ (p.type \in {"FLOAT", "NONE"} /\ ~CustomDisplay(p, val).has) =>
       LET x == Extended(p, val, fs)
       IN  IF fs.isTemposynced THEN TemposyncModelled(x)
           ELSE (p.displayScale = "A_TWO_TO_THE_B" /\ ~CustomInSwitch(p, x).has)
                  => PowModelled(FAdd(FMul(p.svB, x), p.svC))

\* valueToAlternateString: reserved, always empty.
valueToAlternateString(p, val) == NullOptString

(***************************************************************************)
(* valueFromString                                                          *)
(***************************************************************************)
\* The lambda rangeMsg: "<min string> < val < <max string>", or "Invalid input".
rangeMsg(p) ==
  LET nv == valueToString(p, p.minVal, DefaultFeatureState)
      xv == valueToString(p, p.maxVal, DefaultFeatureState)
  IN  IF nv.has /\ xv.has THEN [k |-> "range", lo |-> nv.val, hi |-> xv.val]
      ELSE Lit("Invalid input")

\* What a call returns and leaves in its errMsg argument (errIn when untouched).
Returned(out, err) == [out |-> out, err |-> err]

\* The inverse transform of the parsed number r.
InverseDisplay(p, r) ==
  IF p.displayScale = "LINEAR" THEN FDiv(r, p.svA)
  ELSE FDiv(FSub(Log2(FDiv(r, p.svA)), p.svC), p.svB)

\* The LINEAR and A_TWO_TO_THE_B cases: parse, invert, check against the range.
ParseFloat(p, v, errIn) ==
  LET parsed == Stof(v)
      r == InverseDisplay(p, parsed.val)
  IN  IF ~parsed.ok THEN Returned(NullOptFloat, rangeMsg(p))
      ELSE IF p.displayScale = "A_TWO_TO_THE_B" /\ FLt(parsed.val, FInt(0))
      THEN Returned(NullOptFloat, rangeMsg(p))
      ELSE IF FLt(r, p.minVal) \/ FGt(r, p.maxVal) THEN Returned(NullOptFloat, rangeMsg(p))
      ELSE Returned(Some(r), errIn)

valueFromString(p, v, errIn) ==
  IF p.type = "BOOL" THEN Returned(NullOptFloat, errIn)
  ELSE IF p.type = "INT" THEN Returned(NullOptFloat, errIn)
  ELSE IF ~IsEmpty(p.customMinDisplay) /\ v = p.customMinDisplay
  THEN Returned(Some(p.minVal), errIn)
  ELSE IF ~IsEmpty(p.customMaxDisplay) /\ v = p.customMaxDisplay
  THEN Returned(Some(p.maxVal), errIn)
  ELSE IF p.displayScale \in {"LINEAR", "A_TWO_TO_THE_B"} THEN ParseFloat(p, v, errIn)
  ELSE Returned(NullOptFloat, errIn)

\* Whether valueFromString(v) reaches the parsing of v as a number.
ReachesParse(p, v) ==
  /\ p.type \in {"FLOAT", "NONE"}
  /\ ~(~IsEmpty(p.customMinDisplay) /\ v = p.customMinDisplay)
  /\ ~(~IsEmpty(p.customMaxDisplay) /\ v = p.customMaxDisplay)
  /\ p.displayScale \in {"LINEAR", "A_TWO_TO_THE_B"}

\* The assertions valueFromString(v) passes on p (svA != 0, svB != 0 once the
\* text has parsed), and the arguments of log2 and of rangeMsg's pow are ones
\* the model covers.
ValueFromStringAsserts(p, v) ==
  (ReachesParse(p, v) /\ Stof(v).ok) =>
     /\ p.svA # FInt(0)
     /\ p.displayScale = "A_TWO_TO_THE_B" =>
          (p.svB # FInt(0) /\ Log2Modelled(FDiv(Stof(v).val, p.svA)))

RangeMsgModelled(p) ==
  /\ ValueToStringModelled(p, p.minVal, DefaultFeatureState)
  /\ ValueToStringModelled(p, p.maxVal, DefaultFeatureState)

(***************************************************************************)
(* Modulation display                                                       *)
(***************************************************************************)
\* ModulationDisplay result: every string empty.
EmptyModulationDisplay ==
  [value |-> EmptyString, summary |-> EmptyString, changeUp |-> EmptyString,
   changeDown |-> EmptyString, valUp |-> EmptyString, valDown |-> EmptyString,
   baseValue |-> EmptyString]

\* std::nullopt of std::optional<ModulationDisplay>.
NullOptDisplay == [has |-> FALSE, val |-> EmptyModulationDisplay]

\* result.baseValue: valueToString of the base value, or the error marker.
BaseValue(p, naturalBaseVal, fs) ==
  LET v2s == valueToString(p, naturalBaseVal, fs)
  IN  IF v2s.has THEN v2s.val ELSE Lit("-ERROR-")

\* case LINEAR of modulationNaturalToString
LinearModulation(p, naturalBaseVal, modulationNatural, isBipolar, fs) ==
  LET du == modulationNatural
      dd == FNeg(modulationNatural)
      dp == Precision(p, fs)
  IN  [value |-> FormatWithUnit("", FMul(p.svA, du), dp, p.unit),
       summary |->
         IF isBipolar
         THEN IF FGt(du, FInt(0))
              THEN FormatWithUnit("+/- ", FMul(p.svA, du), dp, p.unit)
              ELSE FormatWithUnit("-/+ ", FMul(FNeg(p.svA), du), dp, p.unit)
         ELSE FormatWithUnit("", FMul(p.svA, du), dp, p.unit),
       changeUp |-> FormatFixed("", FMul(p.svA, du), dp, ""),
       changeDown |->
         IF isBipolar THEN FormatFixed("", FMul(p.svA, dd), dp, "") ELSE EmptyString,
       valUp |-> FormatFixed("", FMul(p.svA, FAdd(naturalBaseVal, du)), dp, ""),
       valDown |->
         IF isBipolar
         THEN FormatFixed("", FMul(p.svA, FAdd(naturalBaseVal, du)), dp, "")
         ELSE EmptyString,
       baseValue |-> BaseValue(p, naturalBaseVal, fs)]

\* svA * pow(2, svB * x): the transform the modulation code applies (no svC).
ModulationDisplayValue(p, x) == FMul(p.svA, PowTwo(FMul(p.svB, x)))

\* case A_TWO_TO_THE_B of modulationNaturalToString
PowerModulation(p, naturalBaseVal, modulationNatural, isBipolar, fs) ==
  LET nvu == FAdd(naturalBaseVal, modulationNatural)
      nvd == FSub(naturalBaseVal, modulationNatural)
      scv == ModulationDisplayValue(p, naturalBaseVal)
      svu == ModulationDisplayValue(p, nvu)
      svd == ModulationDisplayValue(p, nvd)
      du == FSub(svu, scv)
      dd == FSub(scv, svd)
      dp == Precision(p, fs)
  IN  [value |-> FormatWithUnit("", du, dp, p.unit),
       summary |->
         IF isBipolar
         THEN IF FGt(du, FInt(0)) THEN FormatWithUnit("+/- ", du, dp, p.unit)
              ELSE FormatWithUnit("-/+ ", FNeg(du), dp, p.unit)
         ELSE FormatWithUnit("", du, dp, p.unit),
       changeUp |-> FormatFixed("", du, dp, ""),
       changeDown |-> IF isBipolar THEN FormatFixed("", dd, dp, "") ELSE EmptyString,
       valUp |-> FormatFixed("", nvu, dp, ""),
       valDown |-> IF isBipolar THEN FormatFixed("", nvd, dp, "") ELSE EmptyString,
       baseValue |-> BaseValue(p, naturalBaseVal, fs)]

modulationNaturalToString(p, naturalBaseVal, modulationNatural, isBipolar, fs) ==
  IF p.type # "FLOAT" THEN NullOptDisplay
  ELSE IF p.displayScale = "LINEAR"
  THEN Some(LinearModulation(p, naturalBaseVal, modulationNatural, isBipolar, fs))
  ELSE IF p.displayScale = "A_TWO_TO_THE_B"
  THEN Some(PowerModulation(p, naturalBaseVal, modulationNatural, isBipolar, fs))
  ELSE NullOptDisplay

\* The assertion of the LINEAR case, fabs(modulationNatural) <= maxVal - minVal,
\* and the arguments of pow and of valueToString the model covers.
ModulationToStringAsserts(p, naturalBaseVal, modulationNatural, fs) ==
  (p.type = "FLOAT" /\ p.displayScale \in {"LINEAR", "A_TWO_TO_THE_B"}) =>
     /\ IsFinite(naturalBaseVal) /\ IsFinite(modulationNatural)
     /\ ValueToStringModelled(p, naturalBaseVal, fs)
     /\ p.displayScale = "LINEAR" =>
          FLe(FAbs(modulationNatural), FSub(p.maxVal, p.minVal))
     /\ p.displayScale = "A_TWO_TO_THE_B" =>
          /\ PowModelled(FMul(p.svB, naturalBaseVal))
          /\ PowModelled(FMul(p.svB, FAdd(naturalBaseVal, modulationNatural)))
          /\ PowModelled(FMul(p.svB, FSub(naturalBaseVal, modulationNatural)))

\* fmt::format("Maximum depth: {} {}", (maxVal - minVal) * svA, unit)
MaximumDepthMsg(p) ==
  [k |-> "maxdepth", v |-> FMul(FSub(p.maxVal, p.minVal), p.svA), u |-> p.unit]

\* case LINEAR of modulationNaturalFromString
LinearModulationFromString(p, deltaNatural, errIn) ==
  LET parsed == Stof(deltaNatural)
      mv == FDiv(parsed.val, p.svA)
  IN  IF ~parsed.ok THEN Returned(NullOptFloat, errIn)
      ELSE IF FGt(FAbs(mv), FSub(p.maxVal, p.minVal))
      THEN Returned(NullOptFloat, MaximumDepthMsg(p))
      ELSE Returned(Some(mv), errIn)

\* case A_TWO_TO_THE_B of modulationNaturalFromString
PowerModulationFromString(p, deltaNatural, naturalBaseVal, errIn) ==
  LET xbv == ModulationDisplayValue(p, naturalBaseVal)
      parsed == Stof(deltaNatural)
      rv == FAdd(xbv, parsed.val)
      r == FDiv(Log2(FDiv(rv, p.svA)), p.svB)
      rg == FSub(p.maxVal, p.minVal)
  IN  IF ~parsed.ok THEN Returned(NullOptFloat, errIn)
      ELSE IF FLt(rv, FInt(0)) THEN Returned(NullOptFloat, errIn)
      ELSE IF FLt(r, FNeg(rg)) \/ FGt(r, rg) THEN Returned(NullOptFloat, errIn)
      ELSE Returned(Some(FSub(r, naturalBaseVal)), errIn)

\* No test of the type: the displayScale alone selects the case.
modulationNaturalFromString(p, deltaNatural, naturalBaseVal, errIn) ==
  IF p.displayScale = "LINEAR" THEN LinearModulationFromString(p, deltaNatural, errIn)
  ELSE IF p.displayScale = "A_TWO_TO_THE_B"
  THEN PowerModulationFromString(p, deltaNatural, naturalBaseVal, errIn)
  ELSE Returned(NullOptFloat, errIn)

\* The arguments of pow and log2 in modulationNaturalFromString the model covers.
ModulationFromStringModelled(p, deltaNatural, naturalBaseVal) ==
  /\ IsFinite(naturalBaseVal)
  /\ p.displayScale = "A_TWO_TO_THE_B" =>
       /\ PowModelled(FMul(p.svB, naturalBaseVal))
       /\ Stof(deltaNatural).ok =>
            Log2Modelled(FDiv(FAdd(ModulationDisplayValue(p, naturalBaseVal),
                                   Stof(deltaNatural).val), p.svA))

(***************************************************************************)
(* Builder calls: each returns a copy of the receiver with members changed  *)
(***************************************************************************)
withType(p, t) == [p EXCEPT !.type = t]

\* The new default is the receiver's default clamped to the receiver's range.
withRange(p, mn, mx) ==
  [p EXCEPT !.minVal = mn, !.maxVal = mx,
            !.defaultVal = FClamp(p.defaultVal, p.minVal, p.maxVal)]

withDefault(p, t) == [p EXCEPT !.defaultVal = t]

withDecimalPlaces(p, d) == [p EXCEPT !.decimalPlaces = d]

withLinearScaleFormatting(p, units, scale) ==
  [p EXCEPT !.svA = scale, !.unit = units, !.displayScale = "LINEAR",
            !.supportsStringConversion = TRUE]

withName(p, t) == [p EXCEPT !.name = t]

extendable(p, b) == [p EXCEPT !.canExtend = b]

withExtendFactors(p, A, B) == [p EXCEPT !.exA = A, !.exB = B]

deformable(p, b) == [p EXCEPT !.canDeform = b]

withDeformationCount(p, c) == [p EXCEPT !.deformationCount = c]

absolutable(p, b) == [p EXCEPT !.canAbsolute = b]

temposyncable(p, b) == [p EXCEPT !.canTemposync = b]

deactivatable(p, b) == [p EXCEPT !.canDeactivate = b]

withATwoToTheBPlusCFormatting(p, A, B, C, units) ==
  [p EXCEPT !.svA = A, !.svB = B, !.svC = C, !.unit = units,
            !.displayScale = "A_TWO_TO_THE_B", !.supportsStringConversion = TRUE]

withATwoToTheBFormatting(p, A, B, units) ==
  withATwoToTheBPlusCFormatting(p, A, B, FInt(0), units)

withSemitoneZeroAt400Formatting(p) == withATwoToTheBFormatting(p, FInt(440), Mk(1, 12), "Hz")

withLog2SecondsFormatting(p) == withATwoToTheBFormatting(p, FInt(1), FInt(1), "s")

withUnorderedMapFormatting(p, map) ==
  [p EXCEPT !.discreteValues = map, !.displayScale = "UNORDERED_MAP",
            !.supportsStringConversion = TRUE]

withCustomMaxDisplay(p, v) == [p EXCEPT !.customMaxDisplay = v]

withCustomMinDisplay(p, v) == [p EXCEPT !.customMinDisplay = v]

withCustomDefaultDisplay(p, v) == [p EXCEPT !.customDefaultDisplay = v]

asPercent(p) ==
  withDecimalPlaces(
    withLinearScaleFormatting(
      withType(withDefault(withRange(p, FInt(0), FInt(1)), FInt(0)), "FLOAT"),
      "%", FInt(100)),
    2)

asPercentExtendableToBipolar(p) ==
  withExtendFactors(extendable(asPercent(p), TRUE), FInt(2), FInt(-1))

asPercentBipolar(p) ==
  withDecimalPlaces(
    withLinearScaleFormatting(
      withType(withDefault(withRange(p, FInt(-1), FInt(1)), FInt(0)), "FLOAT"),
      "%", FInt(100)),
    2)

asDecibelNarrow(p) ==
  withLinearScaleFormatting(
    withType(withDefault(withRange(p, FInt(-24), FInt(24)), FInt(0)), "FLOAT"),
    "dB", FInt(1))

asDecibel(p) ==
  withLinearScaleFormatting(
    withType(withDefault(withRange(p, FInt(-48), FInt(48)), FInt(0)), "FLOAT"),
    "dB", FInt(1))

asMIDIPitch(p) ==
  withLinearScaleFormatting(
    withDefault(withRange(withType(p, "FLOAT"), FInt(0), FInt(127)), FInt(60)),
    "semitones", FInt(1))

asMIDINote(p) ==
  withDecimalPlaces(
    withLinearScaleFormatting(
      withDefault(withRange(withType(p, "INT"), FInt(0), FInt(127)), FInt(60)),
      "semitones", FInt(1)),
    0)

asLfoRate(p) ==
  withATwoToTheBFormatting(
    temposyncable(withRange(withType(p, "FLOAT"), FInt(-7), FInt(9)), TRUE),
    FInt(1), FInt(1), "Hz")

asEnvelopeTime(p) ==
  withATwoToTheBFormatting(
    temposyncable(
      withDefault(withRange(withType(p, "FLOAT"), FInt(-8), FInt(5)), FInt(-1)), TRUE),
    FInt(1), FInt(1), "s")

asAudibleFrequency(p) ==
  withSemitoneZeroAt400Formatting(
    withDefault(withRange(withType(p, "FLOAT"), FInt(-60), FInt(70)), FInt(0)))

\* displayScale is a public member: a caller selects a scale no builder sets
\* (DECIBEL, USER_PROVIDED) by assigning it.
setDisplayScale(p, ds) == [p EXCEPT !.displayScale = ds]

(***************************************************************************)
(* State: the descriptor a caller holds, and the last operation it called   *)
(* on it (its arguments, what it returned and the error message it left).   *)
(***************************************************************************)
VARIABLES md, call

vars == <<md, call>>

\* The FeatureState builders are non-const members: each is modelled by the
\* receiver it leaves behind and the copy it returns.
withHighPrecision(fs, e) ==
  [receiver |-> fs, returned |-> [fs EXCEPT !.isHighPrecision = e]]

withExtended(fs, e) ==
  [receiver |-> fs, returned |-> [fs EXCEPT !.isExtended = e]]

\* isAbsolute = e assigns the member of the receiver; res is returned as copied.
withAbsolute(fs, e) ==
  [receiver |-> [fs EXCEPT !.isAbsolute = e], returned |-> fs]

withTemposync(fs, e) ==
  [receiver |-> fs, returned |-> [fs EXCEPT !.isTemposynced = e]]

\* No call: ret is the float of the range mapping, out the optional float of the
\* two parsers, str the optional string of valueToString, display the optional
\* ModulationDisplay, err the caller's errMsg.
NoCall ==
  [op |-> "none", val |-> FInt(0), mod |-> FInt(0), text |-> EmptyString,
   fs |-> DefaultFeatureState, bipolar |-> FALSE, ret |-> FInt(0),
   out |-> NullOptFloat, str |-> NullOptString, display |-> NullOptDisplay,
   err |-> EmptyString, flag |-> FALSE, receiver |-> DefaultFeatureState,
   returned |-> DefaultFeatureState, copy |-> DefaultParamMetaData]

Init == md = DefaultParamMetaData /\ call = NoCall

\* A builder call: the caller goes on with the returned copy.
Build(p) == call.op = "none" /\ md' = p /\ call' = NoCall

\* An operation called on the descriptor: what it was given and what it returned.
Called(rec) == call.op = "none" /\ call' = rec /\ UNCHANGED md

\* The caller has used the result of the last operation.
Consume == call.op # "none" /\ call' = NoCall /\ UNCHANGED md

WithType(t) == Build(withType(md, t))

WithRange(mn, mx) == Build(withRange(md, mn, mx))

WithDecimalPlaces(d) == Build(withDecimalPlaces(md, d))

WithExtendFactors(A, B) == Build(withExtendFactors(md, A, B))

WithLinearScaleFormatting(units, scale) == Build(withLinearScaleFormatting(md, units, scale))

WithATwoToTheBPlusCFormatting(A, B, C, units) ==
  Build(withATwoToTheBPlusCFormatting(md, A, B, C, units))

WithUnorderedMapFormatting(map) == Build(withUnorderedMapFormatting(md, map))

WithCustomMinDisplay(v) == Build(withCustomMinDisplay(md, v))

WithCustomMaxDisplay(v) == Build(withCustomMaxDisplay(md, v))

WithCustomDefaultDisplay(v) == Build(withCustomDefaultDisplay(md, v))

SetDisplayScale(ds) == Build(setDisplayScale(md, ds))

AsPercentBipolar == Build(asPercentBipolar(md))

AsMIDINote == Build(asMIDINote(md))

AsEnvelopeTime == Build(asEnvelopeTime(md))

Extendable(b) == Build(extendable(md, b))

Temposyncable(b) == Build(temposyncable(md, b))

\* temposyncNotation called on its own; it reads no member of the descriptor.
\* A FeatureState builder called on a FeatureState object fs with argument e:
\* call.fs is the object before the call, call.receiver the object after it,
\* call.returned the returned copy.
CallFeatureStateBuilder(op, fs, e, r) ==
  Called([NoCall EXCEPT !.op = op, !.fs = fs, !.flag = e,
                           !.receiver = r.receiver, !.returned = r.returned])

CallWithHighPrecision(fs, e) ==
  CallFeatureStateBuilder("withHighPrecision", fs, e, withHighPrecision(fs, e))

CallWithExtended(fs, e) ==
  CallFeatureStateBuilder("withExtended", fs, e, withExtended(fs, e))

CallWithAbsolute(fs, e) ==
  CallFeatureStateBuilder("withAbsolute", fs, e, withAbsolute(fs, e))

CallWithTemposync(fs, e) ==
  CallFeatureStateBuilder("withTemposync", fs, e, withTemposync(fs, e))

\* A ParamMetaData builder whose returned copy the caller has not yet assigned:
\* the receiver md is left as it was (auto res = *this), call.copy is the copy.
CallWithRange(mn, mx) ==
  Called([NoCall EXCEPT !.op = "withRange", !.val = mn, !.mod = mx,
                           !.copy = withRange(md, mn, mx)])

CallWithDefault(t) ==
  Called([NoCall EXCEPT !.op = "withDefault", !.val = t, !.copy = withDefault(md, t)])

CallExtendable(b) ==
  Called([NoCall EXCEPT !.op = "extendable", !.flag = b, !.copy = extendable(md, b)])

CallTemposyncable(b) ==
  Called([NoCall EXCEPT !.op = "temposyncable", !.flag = b,
                           !.copy = temposyncable(md, b)])

\* A named preset called on md, its returned copy not yet assigned.
CallPreset(op, p) == Called([NoCall EXCEPT !.op = op, !.copy = p])

\* The presets that set a range.
RangePresets ==
  {"asPercent", "asPercentBipolar", "asDecibelNarrow", "asDecibel", "asMIDIPitch",
   "asMIDINote", "asLfoRate", "asEnvelopeTime", "asAudibleFrequency"}

\* The caller assigns the returned copy to its descriptor.
Assign ==
  /\ call.op \in {"withRange", "withDefault", "extendable", "temposyncable"}
                   \cup RangePresets
  /\ md' = call.copy
  /\ call' = NoCall

CallTemposyncNotation(f) ==
  /\ TemposyncModelled(f)
  /\ Called([NoCall EXCEPT !.op = "temposyncNotation", !.val = f,
                           !.str = Some(temposyncNotation(f))])

CallNaturalToNormalized01(v) ==
  /\ NaturalToNormalized01Asserts(md)
  /\ Called([NoCall EXCEPT !.op = "naturalToNormalized01", !.val = v,
                           !.ret = naturalToNormalized01(md, v)])

CallNormalized01ToNatural(n) ==
  /\ Normalized01ToNaturalAsserts(md, n)
  /\ Called([NoCall EXCEPT !.op = "normalized01ToNatural", !.val = n,
                           !.ret = normalized01ToNatural(md, n)])

CallValueToString(val, fs) ==
  /\ ValueToStringModelled(md, val, fs)
  /\ Called([NoCall EXCEPT !.op = "valueToString", !.val = val, !.fs = fs,
                           !.str = valueToString(md, val, fs)])

\* errMsg is the caller's empty string when the call starts.
CallValueFromString(v) ==
  /\ ValueFromStringAsserts(md, v)
  /\ ReachesParse(md, v) => RangeMsgModelled(md)
  /\ LET r == valueFromString(md, v, EmptyString)
     IN  Called([NoCall EXCEPT !.op = "valueFromString", !.text = v,
                               !.out = r.out, !.err = r.err])

CallModulationNaturalToString(base, mod, isBipolar, fs) ==
  /\ ModulationToStringAsserts(md, base, mod, fs)
  /\ Called([NoCall EXCEPT !.op = "modulationNaturalToString", !.val = base,
                           !.mod = mod, !.bipolar = isBipolar, !.fs = fs,
                           !.display = modulationNaturalToString(md, base, mod, isBipolar, fs)])

CallModulationNaturalFromString(deltaNatural, base) ==
  /\ ModulationFromStringModelled(md, deltaNatural, base)
  /\ LET r == modulationNaturalFromString(md, deltaNatural, base, EmptyString)
     IN  Called([NoCall EXCEPT !.op = "modulationNaturalFromString",
                               !.text = deltaNatural, !.val = base,
                               !.out = r.out, !.err = r.err])

(***************************************************************************)
(* Spec: the whole interface.  Descriptors are built from the presets, the  *)
(* custom strings, the type and the display scale; every operation is       *)
(* called on them with a few inputs each.                                   *)
(***************************************************************************)
\* Natural values given to the operations: the integers of at most this magnitude.
MaxNatural == 1

ApiVals == {FInt(i) : i \in -MaxNatural .. MaxNatural}

ApiNormalized == {FInt(0), Mk(1, 2), FInt(1)}

Temposynced == [DefaultFeatureState EXCEPT !.isTemposynced = TRUE]

ApiFeatureStates == {DefaultFeatureState, Temposynced}

\* The custom strings of the three slots.
OffText == Lit("Off")

MaxText == Lit("Max")

DefText == Lit("Def")

\* Texts a user types: numbers, the custom strings, and text that is no number.
ApiTexts == {Typed(0, 0), Typed(1, 0), Typed(50, 0), OffText, Lit("abc")}

\* A map for withUnorderedMapFormatting.
OnOffMap == (0 :> Lit("off") @@ 1 :> Lit("on"))

Configure ==
  \/ \E t \in Types : WithType(t)
  \/ AsPercentBipolar
  \/ AsEnvelopeTime
  \/ AsMIDINote
  \/ \E ds \in {"DECIBEL", "USER_PROVIDED"} : SetDisplayScale(ds)
  \/ WithUnorderedMapFormatting(OnOffMap)
  \/ WithCustomMinDisplay(OffText)
  \/ WithCustomMaxDisplay(MaxText)
  \/ WithCustomDefaultDisplay(DefText)

Operate ==
  \/ \E v \in ApiVals : CallNaturalToNormalized01(v)
  \/ \E n \in ApiNormalized : CallNormalized01ToNatural(n)
  \/ \E v \in ApiVals, fs \in ApiFeatureStates : CallValueToString(v, fs)
  \/ \E t \in ApiTexts : CallValueFromString(t)
  \/ \E b, m \in ApiVals, bip \in BOOLEAN :
       CallModulationNaturalToString(b, m, bip, DefaultFeatureState)
  \/ \E t \in ApiTexts, b \in ApiVals : CallModulationNaturalFromString(t, b)

Next == Configure \/ Operate \/ Consume

Spec == Init /\ [][Next]_vars

(***************************************************************************)
(* Claims about the operations a descriptor's kind and scale reject         *)
(***************************************************************************)
\* v is the min (max, default) and the custom string of that slot is set.
AtMin(p, v) == FEq(v, p.minVal) /\ ~IsEmpty(p.customMinDisplay)

AtMax(p, v) == FEq(v, p.maxVal) /\ ~IsEmpty(p.customMaxDisplay)

AtDefault(p, v) == FEq(v, p.defaultVal) /\ ~IsEmpty(p.customDefaultDisplay)

\* The last operation returned a value (has_value() of its optional).
HasValue == call.out.has \/ call.str.has \/ call.display.has

ValueStringOps == {"valueToString", "valueFromString"}

ModulationOps == {"modulationNaturalToString", "modulationNaturalFromString"}

\* C3: on a descriptor of kind None, valueToString and valueFromString return no
\* value, whatever the input, the feature state, the display scale and the
\* custom strings.
C3_NoneHasNoValueString ==
  (md.type = "NONE" /\ call.op \in ValueStringOps) => ~HasValue

\* C8: on a descriptor of kind Int, Bool or None, modulationNaturalToString and
\* modulationNaturalFromString return no value, whatever the display scale.
C8_ModulationOnlyForFloat ==
  (md.type \in {"INT", "BOOL", "NONE"} /\ call.op \in ModulationOps) => ~HasValue

\* C10: on a Float descriptor whose display scale is Decibel or UserProvided, the
\* four string operations return no value, whatever the input, the feature state
\* and the custom strings.
C10_ReservedScalesUnsupported ==
  (/\ md.type = "FLOAT"
   /\ md.displayScale \in {"DECIBEL", "USER_PROVIDED"}
   /\ call.op \in ValueStringOps \cup ModulationOps)
  => ~HasValue

\* Whether the text t is a custom min or max string valueFromString recognises.
IsCustomText(p, t) ==
  \/ ~IsEmpty(p.customMinDisplay) /\ t = p.customMinDisplay
  \/ ~IsEmpty(p.customMaxDisplay) /\ t = p.customMaxDisplay

\* C10 (amended): on a Float descriptor whose display scale is Decibel or
\* UserProvided, the two modulation operations return no value; valueToString
\* returns no value unless isTemposynced is set or the value is the min, max or
\* default with its custom string set; valueFromString returns no value unless
\* the text is a set custom min or max string.
C10_ReservedScalesNoTransform ==
  (md.type = "FLOAT" /\ md.displayScale \in {"DECIBEL", "USER_PROVIDED"}) =>
     /\ call.op \in ModulationOps => ~HasValue
     /\ (/\ call.op = "valueToString"
         /\ ~call.fs.isTemposynced
         /\ ~AtMin(md, call.val) /\ ~AtMax(md, call.val) /\ ~AtDefault(md, call.val))
        => ~call.str.has
     /\ (call.op = "valueFromString" /\ ~IsCustomText(md, call.text)) => ~call.out.has

\* valueToString has no string for a value off the min of a Decibel descriptor
\* whose custom min string is set.
C10_Witness ==
  /\ md.type = "FLOAT"
  /\ md.displayScale = "DECIBEL"
  /\ md.customMinDisplay = OffText
  /\ call.op = "valueToString"
  /\ ~call.fs.isTemposynced
  /\ call.val # md.minVal /\ call.val # md.maxVal /\ call.val # md.defaultVal
  /\ ~call.str.has

(***************************************************************************)
(* SpecParse: formatting and parsing of Float values.  Ranges and values    *)
(* are multiples of 1/2, so that a display value can fall between two       *)
(* printed numbers.                                                         *)
(***************************************************************************)
HalfVals == {Mk(i, 2) : i \in -2 * MaxNatural .. 2 * MaxNatural}

LinearScales == {FInt(1), FInt(100)}

DecimalPlacesArgs == {0, 2}

\* Texts given to valueFromString: numbers in and out of the ranges, the custom
\* strings, text that is no number, and the names std::stof reads as NaN and
\* infinity.
ParseTexts ==
  {Typed(m, 0) : m \in {-1, 0, 1, 2, 4, 50, 500}} \cup {Typed(5, 1), Typed(25, 2)}
    \cup {OffText, MaxText, DefText, Lit("abc"), Lit("nan"), Lit("inf")}

NextParse ==
  \/ \E mn, mx \in HalfVals : FLt(mn, mx) /\ WithRange(mn, mx)
  \/ \E sc \in LinearScales : WithLinearScaleFormatting("%", sc)
  \/ WithATwoToTheBPlusCFormatting(FInt(1), FInt(1), FInt(0), "s")
  \/ \E d \in DecimalPlacesArgs : WithDecimalPlaces(d)
  \/ WithCustomMinDisplay(OffText)
  \/ WithCustomMaxDisplay(MaxText)
  \/ WithCustomDefaultDisplay(DefText)
  \/ \E v \in HalfVals : CallValueToString(v, DefaultFeatureState)
  \/ \E t \in ParseTexts : CallValueFromString(t)
  \/ Consume

SpecParse == Init /\ [][NextParse]_vars

FloatWithTransform(p) ==
  p.type = "FLOAT" /\ p.displayScale \in {"LINEAR", "A_TWO_TO_THE_B"}

\* C4: on a Float descriptor with a Linear or PowerOfTwo scale valueFromString
\* returns no value outside [minNatural, maxNatural]; a text that is a number
\* whose inverse transform is outside the range, and a text that is no number
\* (and no custom string), give no value and the same non-empty range message.
C4_ParseStaysInRange ==
  (FloatWithTransform(md) /\ call.op = "valueFromString") =>
     /\ call.out.has => InRange(md, call.out.val)
     /\ (/\ ReachesParse(md, call.text)
         /\ \/ ~Stof(call.text).ok
            \/ ~InRange(md, InverseDisplay(md, Stof(call.text).val)))
        => /\ ~call.out.has
           /\ call.err = rangeMsg(md)
           /\ call.err # EmptyString

\* Half a unit of the last printed decimal.
HalfUnit(dp) == Mk(1, 2 * Pow10(dp))

\* Whether the model evaluates valueFromString on the text t.
ParseModelled(p, t) ==
  ValueFromStringAsserts(p, t) /\ (ReachesParse(p, t) => RangeMsgModelled(p))

\* C5: on a Float descriptor with a Linear or PowerOfTwo scale (coefficients not
\* zero) and the default feature state, valueFromString(valueToString(v)) is a
\* value for every v in [minNatural, maxNatural], and displays as v does up to
\* half a unit of the last decimal; also at the bounds of the range and where
\* valueToString gives a custom string.
C5_FormatParseRoundTrip ==
  (/\ FloatWithTransform(md)
   /\ md.svA # FInt(0)
   /\ md.displayScale = "A_TWO_TO_THE_B" => md.svB # FInt(0)
   /\ call.op = "valueToString"
   /\ call.fs = DefaultFeatureState
   /\ InRange(md, call.val))
  => /\ call.str.has
     /\ ParseModelled(md, call.str.val) =>
          LET r == valueFromString(md, call.str.val, EmptyString).out
          IN  /\ r.has
              /\ FLe(FAbs(FSub(DisplayValue(md, r.val), DisplayValue(md, call.val))),
                     HalfUnit(md.decimalPlaces))

(***************************************************************************)
(* SpecDisplay: valueToString of a Float descriptor under every feature     *)
(* state, with custom strings, an extension and every kind of scale.        *)
(***************************************************************************)
\* The feature states valueToString tells apart: it never reads isAbsolute.
DisplayFeatureStates == {fs \in FeatureStates : ~fs.isAbsolute}

NextDisplay ==
  \/ \E mn, mx \in ApiVals : FLt(mn, mx) /\ WithRange(mn, mx)
  \/ WithLinearScaleFormatting("%", FInt(100))
  \/ WithATwoToTheBPlusCFormatting(FInt(1), FInt(1), FInt(0), "s")
  \/ SetDisplayScale("DECIBEL")
  \/ WithExtendFactors(FInt(2), FInt(-1))
  \/ WithCustomMinDisplay(OffText)
  \/ WithCustomMaxDisplay(MaxText)
  \/ WithCustomDefaultDisplay(DefText)
  \/ \E v \in ApiVals, fs \in DisplayFeatureStates : CallValueToString(v, fs)
  \/ Consume

SpecDisplay == Init /\ [][NextDisplay]_vars

\* The number valueToString prints for v when no feature is on.
NumericString(p, v) ==
  FormatWithUnit("", DisplayValue(p, v), p.decimalPlaces, p.unit)

ExtendFactors == {<<FInt(2), FInt(-1)>>, <<FInt(-1), FInt(0)>>}

NextExtend ==
  \/ \E mn, mx \in ApiVals : FLt(mn, mx) /\ WithRange(mn, mx)
  \/ WithATwoToTheBPlusCFormatting(FInt(1), FInt(1), FInt(0), "s")
  \/ \E ex \in ExtendFactors : WithExtendFactors(ex[1], ex[2])
  \/ WithCustomMinDisplay(OffText)
  \/ WithCustomMaxDisplay(MaxText)
  \/ WithCustomDefaultDisplay(DefText)
  \/ \E v \in ApiVals, fs \in DisplayFeatureStates : CallValueToString(v, fs)
  \/ Consume

SpecExtend == Init /\ [][NextExtend]_vars

\* C17: on a Float descriptor with a Linear or PowerOfTwo scale, under any
\* feature state (extension included), a string valueToString returns is never
\* empty, and when it is a custom string it is the one of a boundary the input
\* equals: customMinDisplay only at minVal, customMaxDisplay only at maxVal,
\* customDefaultDisplay only at defaultVal; otherwise it is the numeric or the
\* temposync rendering.
C17_CustomStringOnlyAtItsBoundary ==
  (FloatWithTransform(md) /\ call.op = "valueToString" /\ call.str.has)
  => /\ ~IsEmpty(call.str.val)
     /\ \/ call.str.val.k \in {"num", "tempo"}
        \/ call.str.val = md.customMinDisplay /\ AtMin(md, call.val)
        \/ call.str.val = md.customMaxDisplay /\ AtMax(md, call.val)
        \/ call.str.val = md.customDefaultDisplay /\ AtDefault(md, call.val)

(***************************************************************************)
(* SpecMod: the modulation display of a Float descriptor, in both           *)
(* directions, on Linear scales of either sign and PowerOfTwo scales.       *)
(***************************************************************************)
ModulationScales == {FInt(1), FInt(-1), FInt(100)}

HighPrecision == [DefaultFeatureState EXCEPT !.isHighPrecision = TRUE]

\* Depths a user types, in display units.
ModulationTexts ==
  {Typed(m, 0) : m \in {-3, -1, 0, 1, 2, 300}} \cup {Typed(-15, 1), Typed(5, 1)}
    \cup {Lit("abc"), Lit("nan")}

NextMod ==
  \/ \E mn, mx \in ApiVals : FLt(mn, mx) /\ WithRange(mn, mx)
  \/ \E sc \in ModulationScales : WithLinearScaleFormatting("%", sc)
  \/ \E C \in {FInt(0), FInt(1)} :
       WithATwoToTheBPlusCFormatting(FInt(1), FInt(1), C, "s")
  \/ \E b, m \in ApiVals, bip \in BOOLEAN, fs \in {DefaultFeatureState, HighPrecision} :
       CallModulationNaturalToString(b, m, bip, fs)
  \/ \E t \in ModulationTexts, b \in ApiVals : CallModulationNaturalFromString(t, b)
  \/ Consume

SpecMod == Init /\ [][NextMod]_vars

\* The up-delta in display units: svA * modulationNatural on a Linear scale, the
\* display value at base + modulation less the one at base on a PowerOfTwo scale.
UpDelta(p, naturalBaseVal, modulationNatural) ==
  IF p.displayScale = "LINEAR" THEN FMul(p.svA, modulationNatural)
  ELSE FSub(ModulationDisplayValue(p, FAdd(naturalBaseVal, modulationNatural)),
            ModulationDisplayValue(p, naturalBaseVal))

\* C7: on a Float descriptor with a Linear or PowerOfTwo scale (svA not zero) and
\* isBipolar, the summary of modulationNaturalToString begins with "+/-" when
\* the up-delta in display units is zero or more and with "-/+" when it is
\* negative, and the magnitude printed after the prefix is not negative.
C7_BipolarSummarySign ==
  (/\ FloatWithTransform(md)
   /\ md.svA # FInt(0)
   /\ call.op = "modulationNaturalToString"
   /\ call.bipolar)
  => /\ call.display.has
     /\ call.display.val.summary.k = "num"
     /\ call.display.val.summary.s =
          (IF FGe(UpDelta(md, call.val, call.mod), FInt(0)) THEN "+/- " ELSE "-/+ ")
     /\ call.display.val.summary.m >= 0

\* The delta the text stands for at the base value: the parsed number over svA
\* on a Linear scale; on a PowerOfTwo scale the natural value whose display is
\* the base display plus the parsed number, less the base value.
SolvedDelta(p, deltaNatural, naturalBaseVal) ==
  IF p.displayScale = "LINEAR" THEN FDiv(Stof(deltaNatural).val, p.svA)
  ELSE FSub(FDiv(Log2(FDiv(FAdd(ModulationDisplayValue(p, naturalBaseVal),
                                Stof(deltaNatural).val), p.svA)), p.svB),
            naturalBaseVal)

\* C9: on a Float descriptor with a Linear or PowerOfTwo scale (svA not zero) and
\* a base value in [minNatural, maxNatural], a delta modulationNaturalFromString
\* returns has a magnitude of at most maxNatural - minNatural; no value is
\* returned when the delta solved from the text is beyond that magnitude, nor
\* (PowerOfTwo) when the base display value plus the parsed number is negative.
C9_ModulationDepthBounded ==
  (/\ FloatWithTransform(md)
   /\ md.svA # FInt(0)
   /\ call.op = "modulationNaturalFromString"
   /\ InRange(md, call.val))
  => /\ call.out.has => FLe(FAbs(call.out.val), FSub(md.maxVal, md.minVal))
     /\ (/\ Stof(call.text).ok
         /\ FGt(FAbs(SolvedDelta(md, call.text, call.val)), FSub(md.maxVal, md.minVal)))
        => ~call.out.has
     /\ (/\ md.displayScale = "A_TWO_TO_THE_B"
         /\ Stof(call.text).ok
         /\ FLt(FAdd(ModulationDisplayValue(md, call.val), Stof(call.text).val), FInt(0)))
        => ~call.out.has

\* C13: on a PowerOfTwo Float descriptor modulationNaturalToString computes
\* changeUp as F(base + delta) - F(base) and (bipolar) changeDown as
\* F(base) - F(base - delta), F being the forward transform
\* svA * 2^(svB * x + svC) of valueToString, for every svC.
C13_ModulationUsesForwardTransform ==
  (/\ md.type = "FLOAT"
   /\ md.displayScale = "A_TWO_TO_THE_B"
   /\ call.op = "modulationNaturalToString")
  => /\ call.display.has
     /\ call.display.val.changeUp =
          FormatFixed("", FSub(DisplayValue(md, FAdd(call.val, call.mod)),
                               DisplayValue(md, call.val)),
                      Precision(md, call.fs), "")
     /\ call.bipolar =>
          call.display.val.changeDown =
            FormatFixed("", FSub(DisplayValue(md, call.val),
                                 DisplayValue(md, FSub(call.val, call.mod))),
                        Precision(md, call.fs), "")

\* C14: with isBipolar, valUp and valDown both report the display value at
\* base + delta (svA * (base + delta) on a Linear scale, the forward transform
\* of base + delta on a PowerOfTwo scale), so valDown equals valUp.
C14_ValUpValDownConvention ==
  (/\ FloatWithTransform(md)
   /\ call.op = "modulationNaturalToString"
   /\ call.bipolar)
  => /\ call.display.has
     /\ call.display.val.valUp =
          FormatFixed("", DisplayValue(md, FAdd(call.val, call.mod)),
                      Precision(md, call.fs), "")
     /\ call.display.val.valDown = call.display.val.valUp

\* C18: on a Float descriptor with a Linear or PowerOfTwo scale (svA not zero),
\* for a base in [minVal, maxVal] and a delta of magnitude at most
\* maxVal - minVal, modulationNaturalFromString of the value string that
\* modulationNaturalToString(base, delta) produced, at the same base, returns a
\* value, and that value is delta to within half a unit of the last displayed
\* digit of the display delta.
C18_ModulationRoundTrip ==
  (/\ FloatWithTransform(md)
   /\ md.svA # FInt(0)
   /\ call.op = "modulationNaturalToString"
   /\ InRange(md, call.val)
   /\ FLe(FAbs(call.mod), FSub(md.maxVal, md.minVal))
   /\ call.display.has
   /\ ModulationFromStringModelled(md, call.display.val.value, call.val))
  => LET r == modulationNaturalFromString(md, call.display.val.value, call.val,
                                          EmptyString).out
     IN  /\ r.has
         /\ FLe(FAbs(FSub(UpDelta(md, call.val, r.val),
                          UpDelta(md, call.val, call.mod))),
                HalfUnit(Precision(md, call.fs)))

(***************************************************************************)
(* SpecTempo: temposyncNotation on its own and through valueToString, on    *)
(* descriptors with and without the capability flags and an extension.      *)
(***************************************************************************)
\* temposyncNotation takes the multiples of 1/2 of at most this magnitude.
MaxTempo == 3

TempoInputs == {Mk(i, 2) : i \in -2 * MaxTempo .. 2 * MaxTempo}

NextTempo ==
  \/ \E b \in BOOLEAN : Extendable(b)
  \/ \E b \in BOOLEAN : Temposyncable(b)
  \/ WithExtendFactors(FInt(2), FInt(-1))
  \/ WithLinearScaleFormatting("%", FInt(100))
  \/ \E f \in TempoInputs : CallTemposyncNotation(f)
  \/ \E v \in ApiVals, fs \in DisplayFeatureStates : CallValueToString(v, fs)
  \/ Consume

SpecTempo == Init /\ [][NextTempo]_vars

\* C11: for every integer k <= 0 temposyncNotation(k) is the plain note of 2^k
\* whole notes: "whole note" for 0, "1/2 note" for -1, "1/4 note" for -2, in
\* general "1/2^(-k) note".
C11_TemposyncWholeNoteRatio ==
  (call.op = "temposyncNotation" /\ IsInteger(call.val) /\ FLe(call.val, FInt(0)))
  => call.str =
       Some(IF call.val = FInt(0) THEN TempoText("whole", 0, "note")
            ELSE TempoText("1/", IPow(2, -call.val[1]), "note"))

\* C15: the capability flags gate the optional display modes.  On a descriptor
\* with canExtend false valueToString with isExtended gives what it gives without
\* it; on a descriptor with canTemposync false valueToString with isTemposynced
\* gives what it gives without it; and the flag builders leave minVal, maxVal
\* and defaultVal as they were constructed.
C15_CapabilityFlagsGate ==
  /\ (call.op = "valueToString" /\ ~md.canExtend /\ call.fs.isExtended)
       => call.str = valueToString(md, call.val, [call.fs EXCEPT !.isExtended = FALSE])
  /\ (call.op = "valueToString" /\ ~md.canTemposync /\ call.fs.isTemposynced)
       => call.str = valueToString(md, call.val, [call.fs EXCEPT !.isTemposynced = FALSE])
  /\ md.minVal = DefaultParamMetaData.minVal
  /\ md.maxVal = DefaultParamMetaData.maxVal
  /\ md.defaultVal = DefaultParamMetaData.defaultVal

(***************************************************************************)
(* Bounds of the range specification                                        *)
(***************************************************************************)
\* withRange takes integers of at most this magnitude.
\* ---------------------------------------------------------------------------
\* Copy-on-configure: the builders of ParamMetaData and of FeatureState, each
\* observed with its receiver and its returned copy.
\* ---------------------------------------------------------------------------
NextCopy ==
  \/ \E fs \in FeatureStates, e \in BOOLEAN : CallWithHighPrecision(fs, e)
  \/ \E fs \in FeatureStates, e \in BOOLEAN : CallWithExtended(fs, e)
  \/ \E fs \in FeatureStates, e \in BOOLEAN : CallWithAbsolute(fs, e)
  \/ \E fs \in FeatureStates, e \in BOOLEAN : CallWithTemposync(fs, e)
  \/ \E mn, mx \in ApiVals : FLe(mn, mx) /\ CallWithRange(mn, mx)
  \/ \E t \in ApiVals : CallWithDefault(t)
  \/ \E b \in BOOLEAN : CallExtendable(b)
  \/ \E b \in BOOLEAN : CallTemposyncable(b)
  \/ Assign
  \/ Consume

SpecCopy == Init /\ [][NextCopy]_vars

\* C12: every builder of ParamMetaData and every builder of FeatureState
\* (withHighPrecision, withExtended, withAbsolute, withTemposync) leaves the
\* object it is called on unchanged and returns a copy whose named attribute
\* equals the argument.  (The receiver of a ParamMetaData builder is md, which
\* the call steps leave unchanged.)
C12_CopyOnConfigure ==
  /\ call.op \in {"withHighPrecision", "withExtended", "withAbsolute", "withTemposync"}
       => call.receiver = call.fs
  /\ call.op = "withHighPrecision" => call.returned.isHighPrecision = call.flag
  /\ call.op = "withExtended" => call.returned.isExtended = call.flag
  /\ call.op = "withAbsolute" => call.returned.isAbsolute = call.flag
  /\ call.op = "withTemposync" => call.returned.isTemposynced = call.flag
  /\ call.op = "withRange" => call.copy.minVal = call.val /\ call.copy.maxVal = call.mod
  /\ call.op = "withDefault" => call.copy.defaultVal = call.val
  /\ call.op = "extendable" => call.copy.canExtend = call.flag
  /\ call.op = "temposyncable" => call.copy.canTemposync = call.flag

\* ---------------------------------------------------------------------------
\* The range setters: withRange and the named presets, on descriptors earlier
\* builders and presets have configured.
\* ---------------------------------------------------------------------------
NextPreset ==
  \/ \E mn, mx \in ApiVals : FLe(mn, mx) /\ CallWithRange(mn, mx)
  \/ \E t \in ApiVals : CallWithDefault(t)
  \/ CallPreset("asPercent", asPercent(md))
  \/ CallPreset("asPercentBipolar", asPercentBipolar(md))
  \/ CallPreset("asDecibelNarrow", asDecibelNarrow(md))
  \/ CallPreset("asDecibel", asDecibel(md))
  \/ CallPreset("asMIDIPitch", asMIDIPitch(md))
  \/ CallPreset("asMIDINote", asMIDINote(md))
  \/ CallPreset("asLfoRate", asLfoRate(md))
  \/ CallPreset("asEnvelopeTime", asEnvelopeTime(md))
  \/ CallPreset("asAudibleFrequency", asAudibleFrequency(md))
  \/ Assign
  \/ Consume

SpecPreset == Init /\ [][NextPreset]_vars

\* C16: the descriptor returned by withRange(mn, mx) with mn <= mx, and by every
\* preset that sets a range, applied to any configured descriptor, has
\* minVal <= defaultVal <= maxVal.
C16_DefaultInRange ==
  call.op \in {"withRange"} \cup RangePresets
  => FLe(call.copy.minVal, call.copy.defaultVal)
     /\ FLe(call.copy.defaultVal, call.copy.maxVal)

MaxRange == 2

\* Normalized inputs are the multiples of 1/NormSteps in [0, 1].
NormSteps == 4

RangeVals == {FInt(i) : i \in -MaxRange .. MaxRange}

\* Natural inputs: the small integers, and notes of the MIDI range.
NaturalInputs == RangeVals \cup {FInt(i) : i \in {59, 60, 126, 127}}

NormalizedInputs == {Mk(i, NormSteps) : i \in 0 .. NormSteps}

NextRange ==
  \/ \E t \in Types : WithType(t)
  \/ \E mn, mx \in RangeVals : WithRange(mn, mx)
  \/ AsMIDINote
  \/ \E v \in NaturalInputs : CallNaturalToNormalized01(v)
  \/ \E n \in NormalizedInputs : CallNormalized01ToNatural(n)
  \/ Consume

SpecRange == Init /\ [][NextRange]_vars

(***************************************************************************)
(* Claims about the range mapping                                           *)
(***************************************************************************)
\* C1: for a Float, Int or Bool descriptor with minNatural < maxNatural and a
\* normalized input in [0,1], normalized01ToNatural returns a value inside
\* [minNatural, maxNatural]: an integer for Int, one of the two bounds for Bool.
C1_NaturalInRange ==
  (/\ call.op = "normalized01ToNatural"
   /\ md.type \in {"FLOAT", "INT", "BOOL"}
   /\ FLt(md.minVal, md.maxVal))
  => /\ InRange(md, call.ret)
     /\ md.type = "INT" => IsInteger(call.ret)
     /\ md.type = "BOOL" => call.ret \in {md.minVal, md.maxVal}

\* C2: for an Int descriptor with minNatural # maxNatural, in either order,
\* naturalToNormalized01 maps minNatural to 0.005 and maxNatural to 0.995, and
\* normalized01ToNatural gives back every integer v between the bounds from
\* naturalToNormalized01(v).
C2_IntRoundTrip ==
  (/\ call.op = "naturalToNormalized01"
   /\ md.type = "INT"
   /\ md.minVal # md.maxVal
   /\ IsInteger(call.val)
   /\ \/ InRange(md, call.val)
      \/ FLe(md.maxVal, call.val) /\ FLe(call.val, md.minVal))
  => /\ call.val = md.minVal => call.ret = Mk(5, 1000)
     /\ call.val = md.maxVal => call.ret = Mk(995, 1000)
     /\ normalized01ToNatural(md, call.ret) = call.val

=============================================================================
